---- MODULE Spec2Model ----
(***************************************************************************)
(* LoudnessSorter (pyloud.py): scan a folder for audio files, measure the   *)
(* loudness of the files that have no entry in the JSON cache, persist the  *)
(* cache and return the files sorted by loudness.                           *)
(*                                                                          *)
(* A path is a record [abs, parts]; a path component is a sequence of       *)
(* one-character strings, so that extensions can be compared and upper-     *)
(* cased the way the code does.  A dict is a sequence of <<key, value>>     *)
(* pairs with distinct keys, in insertion order (Python dict order).        *)
(***************************************************************************)
EXTENDS Integers, Sequences, FiniteSets, TLC

\* Loudness values are 1..MaxLoud (a total order standing for LUFS floats).
MaxLoud == 2

Loudness == 1..MaxLoud

------------------------------------------------------------------------------
(* Paths: os.path.  The components of a path are handled as posixpath       *)
(* does; ntpath does the same to paths of one drive that differ in no       *)
(* letter's case, which is all the paths below.                             *)

DOT == <<".">>

PARDIR == <<".", ".">>

Root(parts) == [abs |-> TRUE, parts |-> parts]

Rel(parts) == [abs |-> FALSE, parts |-> parts]

\* posixpath.normpath on the components: "." dropped, ".." pops a component;
\* at the root ".." is dropped, in a relative path a leading ".." is kept.
RECURSIVE NormParts(_, _, _)
NormParts(isabs, comps, acc) ==
    IF comps = <<>> THEN acc
    ELSE LET c == Head(comps)
             rest == Tail(comps)
         IN  IF c = DOT \/ c = <<>> THEN NormParts(isabs, rest, acc)
             ELSE IF c # PARDIR
                     \/ (~isabs /\ acc = <<>>)
                     \/ (acc # <<>> /\ acc[Len(acc)] = PARDIR)
                  THEN NormParts(isabs, rest, Append(acc, c))
             ELSE IF acc # <<>>
                  THEN NormParts(isabs, rest, SubSeq(acc, 1, Len(acc) - 1))
             ELSE NormParts(isabs, rest, acc)

normpath(p) ==
    LET n == NormParts(p.abs, p.parts, <<>>)
    IN  IF ~p.abs /\ n = <<>> THEN Rel(<<DOT>>) ELSE [abs |-> p.abs, parts |-> n]

\* os.path.abspath(path) in a process whose working directory is wd.
abspath(p, wd) ==
    IF p.abs THEN normpath(p) ELSE normpath(Root(wd.parts \o p.parts))

\* Length of the longest common prefix of two component lists.
CommonLen(a, b) ==
    LET m == IF Len(a) < Len(b) THEN Len(a) ELSE Len(b)
        same(i) == \A j \in 1..i : a[j] = b[j]
    IN  CHOOSE i \in 0..m : same(i) /\ \A k \in (i+1)..m : ~same(k)

\* Faulty variant of relpath: the ".." steps out of the working directory
\* are left out.
relpath_no_pardir(p, wd) ==
    LET start_list == abspath(wd, wd).parts
        path_list == abspath(p, wd).parts
        i == CommonLen(start_list, path_list)
    IN  Rel(SubSeq(path_list, i + 1, Len(path_list)))

\* os.path.relpath(path) with start = the working directory wd.
relpath(p, wd) ==
    LET start_list == abspath(wd, wd).parts
        path_list == abspath(p, wd).parts
        i == CommonLen(start_list, path_list)
        ups == [j \in 1..(Len(start_list) - i) |-> PARDIR]
        rel_list == ups \o SubSeq(path_list, i + 1, Len(path_list))
    IN  IF rel_list = <<>> THEN Rel(<<DOT>>) ELSE Rel(rel_list)

------------------------------------------------------------------------------
(* Dicts in insertion order *)

DictKeys(d) == {d[i][1] : i \in DOMAIN d}

DictGet(d, k) == d[CHOOSE i \in DOMAIN d : d[i][1] = k][2]

\* d[k] = v : an existing key keeps its position, a new key goes last.
DictSet(d, k, v) ==
    IF k \in DictKeys(d)
    THEN [i \in DOMAIN d |-> IF d[i][1] = k THEN <<k, v>> ELSE d[i]]
    ELSE Append(d, <<k, v>>)

\* {os.path.abspath(k): v for k, v in cache.items()}
RECURSIVE AbsKeys(_, _)
AbsKeys(items, wd) ==
    IF items = <<>> THEN <<>>
    ELSE LET n == Len(items)
         IN  DictSet(AbsKeys(SubSeq(items, 1, n - 1), wd),
                     abspath(items[n][1], wd), items[n][2])

\* {os.path.relpath(k): v for k, v in cache.items()}
RECURSIVE RelKeys(_, _)
RelKeys(items, wd) ==
    IF items = <<>> THEN <<>>
    ELSE LET n == Len(items)
         IN  DictSet(RelKeys(SubSeq(items, 1, n - 1), wd),
                     relpath(items[n][1], wd), items[n][2])

\* {k: v for k, v in d.items() if k in keep}
DictFilter(d, keep) == SelectSeq(d, LAMBDA kv : kv[1] \in keep)

------------------------------------------------------------------------------
(* The directory tree and the command line *)

UpperChar(c) ==
    CASE c = "m" -> "M" [] c = "p" -> "P" [] c = "w" -> "W" [] c = "a" -> "A"
      [] c = "v" -> "V" [] c = "f" -> "F" [] c = "l" -> "L" [] c = "c" -> "C"
      [] c = "o" -> "O" [] c = "g" -> "G" [] c = "t" -> "T" [] c = "x" -> "X"
      [] c = "b" -> "B" [] c = "d" -> "D" [] c = "s" -> "S"
      [] OTHER -> c

\* str.upper()
upper(s) == [i \in DOMAIN s |-> UpperChar(s[i])]

LowerChar(c) ==
    CASE c = "M" -> "m" [] c = "P" -> "p" [] c = "W" -> "w" [] c = "A" -> "a"
      [] c = "V" -> "v" [] c = "F" -> "f" [] c = "L" -> "l" [] c = "C" -> "c"
      [] c = "O" -> "o" [] c = "G" -> "g"
      [] OTHER -> c

\* os.path.normcase, which fnmatch applies to the pattern and to the name:
\* the identity on POSIX, lower case on Windows (nocase).
normcase(s, nocase) == IF nocase THEN [i \in DOMAIN s |-> LowerChar(s[i])] ELSE s

extensions ==
    << <<"m","p","3">>, <<"w","a","v">>, <<"f","l","a","c">>, <<"o","g","g">> >>

\* args.folder and args.cache_path
Folder == Root(<< <<"m">> >>)

CachePath == Root(<< <<"c",".","j","s","o","n">> >>)

\* Audio files that may come and go between runs.
AudioA == Root(<< <<"m">>, <<"a",".","m","p","3">> >>)

AudioSubA == Root(<< <<"m">>, <<"s">>, <<"a",".","m","p","3">> >>)

AudioSubB == Root(<< <<"m">>, <<"s">>, <<"b",".","W","A","V">> >>)

\* An audio file whose extension mixes the cases.
MixedCase == Root(<< <<"m">>, <<"c",".","M","p","3">> >>)

Volatile == {AudioA, AudioSubA, AudioSubB, MixedCase}

\* Files that are in the folder throughout: the mixed-case extension, a file
\* that is no audio file, a hidden audio file.

NotAudio == Root(<< <<"m">>, <<"d",".","t","x","t">> >>)

Hidden == Root(<< <<"m">>, <<".","h",".","o","g","g">> >>)

Resident == {MixedCase, NotAudio, Hidden}

\* The working directories a run may be started from.
InFolder == Root(<< <<"m">> >>)

InSub == Root(<< <<"m">>, <<"s">> >>)

InRoot == Root(<<>>)

\* The environments explored: which files come and go, which stay, where
\* runs are started, and whether the platform matches file names without
\* regard to case.  Three files and one working directory; two files of the
\* same name at two depths and two working directories; a folder that
\* exists only while its one file does; a platform that ignores case.
Scenarios ==
    { [volatile |-> {AudioA, AudioSubA, AudioSubB}, resident |-> Resident,
       cwds |-> {InSub}, nocase |-> FALSE],
      [volatile |-> {AudioA, AudioSubA}, resident |-> Resident,
       cwds |-> {InFolder, InSub}, nocase |-> FALSE],
      [volatile |-> {AudioA}, resident |-> {},
       cwds |-> {InRoot}, nocase |-> FALSE],
      [volatile |-> {MixedCase}, resident |-> {NotAudio, Hidden},
       cwds |-> {InFolder}, nocase |-> TRUE] }

------------------------------------------------------------------------------
(* get_audio_files *)

IsPrefix(a, b) == Len(a) <= Len(b) /\ SubSeq(b, 1, Len(a)) = a

EndsWith(name, suffix) ==
    /\ Len(name) >= Len(suffix)
    /\ SubSeq(name, Len(name) - Len(suffix) + 1, Len(name)) = suffix

\* glob.glob(os.path.join(folder, "**/*." + ext), recursive=True): any depth
\* below folder, no component starting with a dot, the name ending in
\* "." + ext; name and pattern are compared after os.path.normcase.  A
\* folder that does not exist has no path below it: the result is empty.
Glob(folder, ext, disk, nocase) ==
    {p \in disk :
        /\ IsPrefix(folder.parts, p.parts)
        /\ Len(p.parts) > Len(folder.parts)
        /\ \A i \in (Len(folder.parts) + 1)..Len(p.parts) : Head(p.parts[i]) # "."
        /\ EndsWith(normcase(p.parts[Len(p.parts)], nocase),
                    normcase(DOT \o ext, nocase))}

\* The extensions of the patterns globbed, in the order of lines 92-95.
Patterns ==
    [i \in 1..(2 * Len(extensions)) |->
        IF i % 2 = 1 THEN extensions[(i + 1) \div 2] ELSE upper(extensions[i \div 2])]

\* How many times the list get_audio_files returns holds file: once for
\* every pattern that matches it.
occurrences(file, folder, disk, wd, nocase) ==
    Cardinality({i \in DOMAIN Patterns :
                    file \in {abspath(p, wd) : p \in Glob(folder, Patterns[i], disk, nocase)}})

\* The elements of the list get_audio_files returns.  The order of the list
\* is the order of the directory listing and has no effect; how often a
\* file is listed is given by occurrences.
get_audio_files(folder, disk, wd, nocase) ==
    LET found == UNION {Glob(folder, Patterns[i], disk, nocase) : i \in DOMAIN Patterns}
    IN  {abspath(file, wd) : file \in found}

------------------------------------------------------------------------------
(* The cache file, load_cache and save_cache *)

Absent == [kind |-> "absent", items |-> <<>>]

\* Content json.load rejects with JSONDecodeError (truncated or no JSON).
Garbage == [kind |-> "garbage", items |-> <<>>]

\* Valid JSON that is no object (a list, a number): it has no .items().
NonObject == [kind |-> "nonobject", items |-> <<>>]

Object(items) == [kind |-> "object", items |-> items]

\* Faulty variant of load_cache: the cache file is never read.
load_cache_ignores_file(file, wd) ==
    [raised |-> FALSE, logged |-> FALSE, cache |-> <<>>]

\* load_cache: what it returns, whether it raised, whether it logged an error.
load_cache(file, wd) ==
    CASE file.kind = "absent" ->
            [raised |-> FALSE, logged |-> FALSE, cache |-> <<>>]
      [] file.kind = "garbage" ->
            [raised |-> FALSE, logged |-> TRUE, cache |-> <<>>]
      [] file.kind = "nonobject" ->
            [raised |-> TRUE, logged |-> FALSE, cache |-> <<>>]
      [] file.kind = "object" ->
            [raised |-> FALSE, logged |-> FALSE, cache |-> AbsKeys(file.items, wd)]

\* How a write of the cache file can end: written; open() or relpath() failed
\* and the file is as it was; the write failed after open() truncated the file.
WriteResults == {"ok", "unchanged", "partial"}

\* Faulty variant of save_cache: the entries are written in another order.
Reversed(s) == [i \in DOMAIN s |-> s[Len(s) + 1 - i]]

save_cache_reorders(file, dict, wd, result) ==
    CASE result = "ok" -> Object(Reversed(RelKeys(dict, wd)))
      [] result = "unchanged" -> file
      [] result = "partial" -> Garbage

\* Faulty variant of save_cache: the first entry is not written.
save_cache_skips_first(file, dict, wd, result) ==
    CASE result = "ok" ->
            Object(RelKeys(IF dict = <<>> THEN dict ELSE Tail(dict), wd))
      [] result = "unchanged" -> file
      [] result = "partial" -> Garbage

\* save_cache: the content of the cache file afterwards.
save_cache(file, dict, wd, result) ==
    CASE result = "ok" -> Object(RelKeys(dict, wd))
      [] result = "unchanged" -> file
      [] result = "partial" -> Garbage

------------------------------------------------------------------------------
(* The report *)

\* Insert x after the entries whose loudness is <= its own (s is sorted).
InsertSorted(s, x) ==
    LET k == Cardinality({i \in DOMAIN s : s[i][2] <= x[2]})
    IN  SubSeq(s, 1, k) \o <<x>> \o SubSeq(s, k + 1, Len(s))

\* list.sort(key=lambda x: x[1]): ascending and stable.
RECURSIVE SortByLoudness(_)
SortByLoudness(s) ==
    IF s = <<>> THEN <<>>
    ELSE InsertSorted(SortByLoudness(SubSeq(s, 1, Len(s) - 1)), s[Len(s)])

\* Faulty variant of songs_with_loudness: line 142 is missing.
songs_unsorted(dict, fs) == DictFilter(dict, fs)

\* Lines 139-142: the pairs of the cache whose file is in files, sorted.
songs_with_loudness(dict, fs) == SortByLoudness(DictFilter(dict, fs))

------------------------------------------------------------------------------
(* State *)

VARIABLES
    scenario,    \* the environment (one of Scenarios), fixed
    diskFiles,   \* the files that exist in the file system
    cacheFile,   \* the content of the file at cache_path
    pc,          \* where the run is; "idle" between two runs
    cwd,         \* working directory of the (last) run
    loaded,      \* what load_cache returned in this run (line 109)
    cache,       \* the local cache of sort_songs_by_loudness
    files,       \* the local files (line 112)
    new_files,   \* the elements of the local new_files (line 118)
    outcome,     \* per new file, what calculate_loudness ends with on it
    tasks,       \* per future <<file, i>>: "running", "done" or "collected"
    saveStatus,  \* "none", or how save_cache's write ended in this run
    errlog,      \* the logger.error calls of this run
    report,      \* the list this run returns (line 144)
    exit,        \* "none" before any run; then how the last run went
    cacheFile0,  \* history: the cache file as this run found it
    last,        \* history: the previous completed run (see NoLast)
    hist         \* history: per file, how its last measurement ended (see Save)

vars == <<scenario, diskFiles, cacheFile, pc, cwd, loaded, cache, files, new_files,
          outcome, tasks, saveStatus, errlog, report, exit,
          cacheFile0, last, hist>>

Value(v) == [kind |-> "value", val |-> v]

\* calculate_loudness caught the error, logged it and returned None.
NoResult == [kind |-> "none", val |-> 0]

\* The task raised: future.result() re-raises in the collecting loop.
Raised == [kind |-> "raise", val |-> 0]

Outcomes == {Value(v) : v \in Loudness} \cup {NoResult, Raised}

LogEntry(kind, path) == [kind |-> kind, path |-> path]

NoTasks == [f \in {} |-> "running"]

\* The previous completed run: where it was started, the files it found and
\* the report it returned.  It is kept for a run that finds the cache and
\* the folder in agreement to compare itself with, and dropped otherwise.
NoLast == [ran |-> FALSE, cwd |-> Folder, files |-> {}, report |-> <<>>]

Init ==
    /\ scenario \in Scenarios
    /\ diskFiles = scenario.resident
    /\ cacheFile \in {Absent, Garbage, NonObject}
    /\ pc = "idle"
    /\ cwd \in scenario.cwds
    /\ loaded = <<>>
    /\ cache = <<>>
    /\ files = {}
    /\ new_files = {}
    /\ outcome = NoTasks
    /\ tasks = NoTasks
    /\ saveStatus = "none"
    /\ errlog = {}
    /\ report = <<>>
    /\ exit = "none"
    /\ cacheFile0 = cacheFile
    /\ last = NoLast
    /\ hist = [f \in Volatile |-> "none"]

------------------------------------------------------------------------------
(* The environment, between two runs *)

AddFile(f) ==
    /\ pc = "idle"
    /\ f \notin diskFiles
    /\ diskFiles' = diskFiles \cup {f}
    /\ UNCHANGED <<scenario, cacheFile, pc, cwd, loaded, cache, files, new_files,
                   outcome, tasks, saveStatus, errlog, report, exit,
                   cacheFile0, last, hist>>

DeleteFile(f) ==
    /\ pc = "idle"
    /\ f \in diskFiles
    /\ diskFiles' = diskFiles \ {f}
    /\ hist' = [hist EXCEPT ![f] = "none"]
    /\ UNCHANGED <<scenario, cacheFile, pc, cwd, loaded, cache, files, new_files,
                   outcome, tasks, saveStatus, errlog, report, exit,
                   cacheFile0, last>>

------------------------------------------------------------------------------
(* One run of sort_songs_by_loudness(Folder, CachePath) *)

\* Line 109, in a process started in working directory wd.  An exception
\* load_cache does not catch ends the process.
Load(wd) ==
    /\ pc = "idle"
    /\ LET r == load_cache(cacheFile, wd)
       IN  /\ cwd' = wd
           /\ loaded' = r.cache
           /\ cache' = r.cache
           /\ errlog' = IF r.logged THEN {LogEntry("load", CachePath)} ELSE {}
           /\ pc' = IF r.raised THEN "idle" ELSE "scan"
           /\ exit' = IF r.raised THEN "crash" ELSE "running"
    /\ files' = {}
    /\ new_files' = {}
    /\ outcome' = NoTasks
    /\ tasks' = NoTasks
    /\ saveStatus' = "none"
    /\ report' = <<>>
    /\ cacheFile0' = cacheFile
    /\ hist' = IF wd = cwd THEN hist ELSE [f \in Volatile |-> "none"]
    /\ UNCHANGED <<scenario, diskFiles, cacheFile, last>>

\* Line 112.
Scan ==
    /\ pc = "scan"
    /\ files' = get_audio_files(Folder, diskFiles, cwd, scenario.nocase)
    /\ pc' = "reconcile"
    /\ UNCHANGED <<scenario, diskFiles, cacheFile, cwd, loaded, cache, new_files,
                   outcome, tasks, saveStatus, errlog, report, exit,
                   cacheFile0, last, hist>>

\* Faulty variants of reconcile: nothing is filtered out; everything is;
\* the first of the entries to keep is dropped as well.
reconcile_keeps_all(dict, fs) == dict

reconcile_drops_all(dict, fs) == <<>>

reconcile_drops_first(dict, fs) ==
    LET kept == DictFilter(dict, fs)
    IN  IF kept = <<>> THEN kept ELSE Tail(kept)

\* Line 115.
reconcile(dict, fs) == DictFilter(dict, fs)

\* Faulty variant of uncached: every file counts as new.
uncached_is_everything(fs, dict) == fs

\* Line 118.
uncached(fs, dict) == {file \in fs : file \notin DictKeys(dict)}

\* Faulty variant of Reconcile: the test on line 120 is missing, the run
\* goes on to save_cache when there is no new file.
Reconcile_saves_anyway ==
    /\ pc = "reconcile"
    /\ cache' = reconcile(cache, files)
    /\ new_files' = uncached(files, cache')
    /\ pc' = IF new_files' # {} THEN "dispatch" ELSE "save"
    /\ last' = IF DictKeys(loaded) = files THEN last ELSE NoLast
    /\ UNCHANGED <<scenario, diskFiles, cacheFile, cwd, loaded, files, outcome, tasks,
                   saveStatus, errlog, report, exit, cacheFile0, hist>>

\* Lines 115-120.
Reconcile ==
    /\ pc = "reconcile"
    /\ cache' = reconcile(cache, files)
    /\ new_files' = uncached(files, cache')
    /\ pc' = IF new_files' # {} THEN "dispatch" ELSE "report"
    /\ last' = IF DictKeys(loaded) = files THEN last ELSE NoLast
    /\ UNCHANGED <<scenario, diskFiles, cacheFile, cwd, loaded, files, outcome, tasks,
                   saveStatus, errlog, report, exit, cacheFile0, hist>>

\* The futures of line 123: one per element of the list new_files, which
\* holds a file as often as the list files does (line 118).
Futures(fs, disk, wd, nocase) ==
    {t \in fs \X (1..Len(Patterns)) : t[2] <= occurrences(t[1], Folder, disk, wd, nocase)}

\* Line 123.  What calculate_loudness ends with on a file is fixed by the
\* file's content, that is, from the moment the task is submitted.
Dispatch(result) ==
    /\ pc = "dispatch"
    /\ outcome' = result
    /\ tasks' = [t \in Futures(new_files, diskFiles, cwd, scenario.nocase) |-> "running"]
    /\ pc' = "collect"
    /\ UNCHANGED <<scenario, diskFiles, cacheFile, cwd, loaded, cache, files, new_files,
                   saveStatus, errlog, report, exit,
                   cacheFile0, last, hist>>

\* Faulty variant of TaskDone: a task returns only once another one of the
\* batch has.
TaskDone_waits(t) ==
    /\ pc = "collect"
    /\ t \in DOMAIN tasks
    /\ tasks[t] = "running"
    /\ \E u \in DOMAIN tasks \ {t} : tasks[u] # "running"
    /\ tasks' = [tasks EXCEPT ![t] = "done"]
    /\ errlog' = IF outcome[t[1]] = NoResult
                 THEN errlog \cup {LogEntry("calculate", t[1])} ELSE errlog
    /\ UNCHANGED <<scenario, diskFiles, cacheFile, pc, cwd, loaded, cache, files,
                   new_files, outcome, saveStatus, report, exit,
                   cacheFile0, last, hist>>

\* Faulty variant of TaskDone: the worker stores its result in the cache.
TaskDone_writes_cache(t) ==
    /\ pc = "collect"
    /\ t \in DOMAIN tasks
    /\ tasks[t] = "running"
    /\ tasks' = [tasks EXCEPT ![t] = "done"]
    /\ cache' = IF outcome[t[1]].kind = "value"
                THEN DictSet(cache, t[1], outcome[t[1]].val) ELSE cache
    /\ errlog' = IF outcome[t[1]] = NoResult
                 THEN errlog \cup {LogEntry("calculate", t[1])} ELSE errlog
    /\ UNCHANGED <<scenario, diskFiles, cacheFile, pc, cwd, loaded, files,
                   new_files, outcome, saveStatus, report, exit,
                   cacheFile0, last, hist>>

\* A worker thread finishes calculate_loudness for the future t (lines 60-79).
TaskDone(t) ==
    /\ pc = "collect"
    /\ t \in DOMAIN tasks
    /\ tasks[t] = "running"
    /\ tasks' = [tasks EXCEPT ![t] = "done"]
    /\ errlog' = IF outcome[t[1]] = NoResult
                 THEN errlog \cup {LogEntry("calculate", t[1])} ELSE errlog
    /\ UNCHANGED <<scenario, diskFiles, cacheFile, pc, cwd, loaded, cache, files,
                   new_files, outcome, saveStatus, report, exit,
                   cacheFile0, last, hist>>

\* Faulty variants of collect: the test on line 128 is missing; line 129 is
\* missing.
collect_caches_failures(dict, f, res) == DictSet(dict, f, res.val)

collect_ignores_results(dict, f, res) == dict

\* Faulty variant of collect: a result is stored only in an empty cache, so
\* that the first task to complete wins.
collect_first_wins(dict, f, res) ==
    IF res.kind = "value" /\ dict = <<>> THEN DictSet(dict, f, res.val) ELSE dict

\* Lines 125-131 for one completed future.
collect(dict, f, res) ==
    IF res.kind = "value" THEN DictSet(dict, f, res.val) ELSE dict

\* One iteration of the as_completed loop (lines 124-131).
Collect(t) ==
    /\ pc = "collect"
    /\ t \in DOMAIN tasks
    /\ tasks[t] = "done"
    /\ tasks' = [tasks EXCEPT ![t] = "collected"]
    /\ cache' = collect(cache, t[1], outcome[t[1]])
    /\ errlog' = IF outcome[t[1]] = Raised
                 THEN errlog \cup {LogEntry("process", t[1])} ELSE errlog
    /\ UNCHANGED <<scenario, diskFiles, cacheFile, pc, cwd, loaded, files, new_files,
                   outcome, saveStatus, report, exit,
                   cacheFile0, last, hist>>

\* Faulty variant of Join: the run goes on as soon as one future was
\* collected.
Join_after_first ==
    /\ pc = "collect"
    /\ \E t \in DOMAIN tasks : tasks[t] = "collected"
    /\ pc' = "save"
    /\ UNCHANGED <<scenario, diskFiles, cacheFile, cwd, loaded, cache, files, new_files,
                   outcome, tasks, saveStatus, errlog, report, exit,
                   cacheFile0, last, hist>>

\* The loop and the with block end once every future was yielded.
Join ==
    /\ pc = "collect"
    /\ \A t \in DOMAIN tasks : tasks[t] = "collected"
    /\ pc' = "save"
    /\ UNCHANGED <<scenario, diskFiles, cacheFile, cwd, loaded, cache, files, new_files,
                   outcome, tasks, saveStatus, errlog, report, exit,
                   cacheFile0, last, hist>>

\* History: "failed" for a file whose last measurement failed, "measured"
\* for one whose measurement succeeded in a run that wrote the cache file,
\* as long as the file was not deleted, no write of the cache file failed
\* after truncating it and no run was started from another directory.
measured(f, result) ==
    IF f \in new_files
    THEN IF outcome[f].kind # "value" THEN "failed"
         ELSE IF result = "ok" THEN "measured" ELSE "none"
    ELSE IF result = "partial" /\ hist[f] = "measured" THEN "none"
    ELSE hist[f]

\* Line 134.
Save(result) ==
    /\ pc = "save"
    /\ cacheFile' = save_cache(cacheFile, cache, cwd, result)
    /\ saveStatus' = result
    /\ errlog' = IF result # "ok"
                 THEN errlog \cup {LogEntry("save", CachePath)} ELSE errlog
    /\ pc' = "report"
    /\ hist' = [f \in Volatile |-> measured(f, result)]
    /\ UNCHANGED <<scenario, diskFiles, cwd, loaded, cache, files, new_files, outcome,
                   tasks, report, exit, cacheFile0, last>>

\* Lines 139-144.
Report ==
    /\ pc = "report"
    /\ report' = songs_with_loudness(cache, files)
    /\ pc' = "done"
    /\ exit' = "ok"
    /\ UNCHANGED <<scenario, diskFiles, cacheFile, cwd, loaded, cache, files, new_files,
                   outcome, tasks, saveStatus, errlog,
                   cacheFile0, last, hist>>

\* The process ends; its locals are gone.
Exit ==
    /\ pc = "done"
    /\ pc' = "idle"
    /\ loaded' = <<>>
    /\ cache' = <<>>
    /\ files' = {}
    /\ new_files' = {}
    /\ outcome' = NoTasks
    /\ tasks' = NoTasks
    /\ saveStatus' = "none"
    /\ errlog' = {}
    /\ report' = <<>>
    /\ cacheFile0' = cacheFile
    /\ last' = [ran |-> TRUE, cwd |-> cwd, files |-> files, report |-> report]
    /\ UNCHANGED <<scenario, diskFiles, cacheFile, cwd, exit, hist>>

Next ==
    \/ \E f \in scenario.volatile : AddFile(f)
    \/ \E f \in scenario.volatile : DeleteFile(f)
    \/ \E wd \in scenario.cwds : Load(wd)
    \/ Scan
    \/ Reconcile
    \/ \E result \in [new_files -> Outcomes] : Dispatch(result)
    \/ \E t \in DOMAIN tasks : TaskDone(t)
    \/ \E t \in DOMAIN tasks : Collect(t)
    \/ Join
    \/ \E result \in WriteResults : Save(result)
    \/ Report
    \/ Exit

Spec == Init /\ [][Next]_vars

\* The steps of the thread that runs sort_songs_by_loudness, and those of
\* the worker threads of the pool.
Coordinator ==
    \/ Scan
    \/ Reconcile
    \/ \E result \in [new_files -> Outcomes] : Dispatch(result)
    \/ \E t \in DOMAIN tasks : Collect(t)
    \/ Join
    \/ \E result \in WriteResults : Save(result)
    \/ Report

Workers == \E t \in DOMAIN tasks : TaskDone(t)

\* The environments with at most two files that come and go.
LiveInit == Init /\ AudioSubB \notin scenario.volatile

\* The thread of sort_songs_by_loudness keeps running, and every call of
\* calculate_loudness returns; when files change and when the next run is
\* started is up to the environment.
LiveSpec ==
    LiveInit /\ [][Next]_vars /\ WF_vars(Coordinator) /\ WF_vars(Workers)

------------------------------------------------------------------------------
(* Properties *)

Pairs(dict) == {dict[i] : i \in DOMAIN dict}

\* The files the cache file has an entry for, as a run started in cwd reads it.
Persisted == Pairs(load_cache(cacheFile, cwd).cache)

PersistedKeys == DictKeys(load_cache(cacheFile, cwd).cache)

Succeeded == {f \in new_files : outcome[f].kind = "value"}

\* The extension of the file name is ext, whatever the case of its letters.
HasExtension(p, ext) ==
    LET name == p.parts[Len(p.parts)]
    IN  /\ Len(name) > Len(ext)
        /\ upper(SubSeq(name, Len(name) - Len(ext), Len(name))) = upper(DOT \o ext)

IsAudio(p) == \E i \in DOMAIN extensions : HasExtension(p, extensions[i])

\* The run has decided which files to measure and has not yet saved.
Decided ==
    \/ pc \in {"dispatch", "collect", "save"}
    \/ pc \in {"report", "done"} /\ new_files = {}

\* Over this step every entry of the cache file, as a run started in cwd
\* reads it, stays with its value if its file exists after the step.
EntriesStay ==
    LET before == Pairs(load_cache(cacheFile, cwd).cache)
        after == Pairs(load_cache(cacheFile', cwd').cache)
    IN  \A kv \in before : kv[1] \in diskFiles' => kv \in after

Ascending(s) == \A i \in 1..(Len(s) - 1) : s[i][2] <= s[i + 1][2]

\* C1: after a run the keys of the in-memory cache are a subset of the
\* current files, and every current file that was a key of the loaded cache
\* has the value it had there.
C1_CachedValuesKept ==
    pc = "done" =>
        /\ DictKeys(cache) \subseteq files
        /\ \A f \in files \cap DictKeys(loaded) :
              /\ f \in DictKeys(cache)
              /\ DictGet(cache, f) = DictGet(loaded, f)

\* A run that kept a cached entry, dropped another and measured a new file.
C1_Witness ==
    /\ pc = "done"
    /\ files \cap DictKeys(loaded) # {}
    /\ DictKeys(loaded) \ files # {}
    /\ Succeeded # {}

\* C2 as claimed: after a run, a file that had an entry in the cache file and
\* is gone from the disk is neither in the report nor in the cache file,
\* whether or not the run found new files.
C2_DeletedFileLeavesCacheFile ==
    pc = "done" =>
        \A k \in (DictKeys(loaded) \cap Volatile) \ diskFiles :
            /\ k \notin DictKeys(report)
            /\ k \notin PersistedKeys

\* C2 amended: such a file is never in the report; it is gone from the cache
\* file once the run has rewritten that file, which it does only when it
\* found a new file and could open the file for writing; a run that finds
\* no new file does not write and the entry stays in the cache file.
C2_DeletedFileLeavesOnRewrite ==
    pc = "done" =>
        \A k \in (DictKeys(loaded) \cap Volatile) \ diskFiles :
            /\ k \notin DictKeys(report)
            /\ saveStatus \in {"ok", "partial"} => k \notin PersistedKeys
            /\ new_files = {} =>
                  saveStatus = "none" /\ cacheFile = cacheFile0 /\ k \in PersistedKeys

\* A cached file was deleted and the run, having a new file, saved.
C2_Witness ==
    /\ pc = "done"
    /\ saveStatus = "ok"
    /\ (DictKeys(loaded) \ diskFiles) \cap Volatile # {}
    /\ cache # <<>>

\* C3 as claimed: a run in which every current file has a cache entry and
\* every cache entry a current file dispatches nothing, leaves the cache
\* file as it was and returns the report of the previous run.
C3_NothingNewSameReport ==
    (pc = "done" /\ last.ran /\ DictKeys(loaded) = files) =>
        /\ tasks = NoTasks
        /\ cacheFile = cacheFile0
        /\ report = last.report

\* C3 amended: the same, for a run over the file set of the previous run,
\* started from the same working directory.
C3_RerunSameReport ==
    (/\ pc = "done" /\ last.ran /\ DictKeys(loaded) = files
     /\ last.files = files /\ last.cwd = cwd) =>
        /\ tasks = NoTasks
        /\ saveStatus = "none"
        /\ cacheFile = cacheFile0
        /\ report = last.report

\* A rerun over two cached files.
C3_Witness ==
    /\ pc = "done" /\ last.ran /\ DictKeys(loaded) = files
    /\ last.files = files /\ last.cwd = cwd
    /\ Len(report) >= 2

\* C4: a failing measurement does not end the run; when the run returns,
\* every dispatched task was collected, the cache is the reconciled cache
\* plus one entry per file measured successfully, and the report lists
\* exactly the entries of the cache in ascending order.
C4_FailureIsolated ==
    /\ exit = "crash" => cacheFile.kind = "nonobject"
    /\ (pc = "done" /\ new_files # {}) =>
        /\ \A f \in new_files : <<f, 1>> \in DOMAIN tasks
        /\ \A t \in DOMAIN tasks : tasks[t] = "collected"
        /\ DictKeys(cache) = (DictKeys(loaded) \cap files) \cup Succeeded
        /\ Len(cache) = Cardinality(DictKeys(cache))
        /\ \A f \in Succeeded : DictGet(cache, f) = outcome[f].val
        /\ Pairs(report) = Pairs(cache)
        /\ Len(report) = Len(cache)
        /\ Ascending(report)

\* Three new files, one of them failing: two entries, two report lines.
C4_Witness ==
    /\ pc = "done"
    /\ Cardinality(new_files) = 3
    /\ Cardinality(Succeeded) = 2
    /\ Len(cache) = 2
    /\ Len(report) = 2

\* C5 as claimed, from one run to the next: a file the previous run found and
\* left without a cache entry (its measurement failed) is dispatched again,
\* and a file the previous run reported (it has been measured) is not.
C5_FailedRetriedMeasuredNot ==
    [][(pc = "reconcile" /\ last.ran) =>
          \A f \in files \cap last.files :
              /\ f \notin DictKeys(last.report) => f \in new_files'
              /\ f \in DictKeys(last.report) => f \notin new_files']_vars

\* C5 amended: a file whose measurement fails is written neither to the
\* in-memory cache nor to the cache file, and a file measured successfully
\* is in the in-memory cache.  As long as runs are started from the same
\* working directory and the file is not deleted, a file whose last
\* measurement failed is dispatched in every run; a file measured in a run
\* whose write of the cache file succeeded is not dispatched, until a later
\* write fails after truncating the cache file.
C5_RetriedUntilMeasuredAndSaved ==
    /\ pc \in {"report", "done"} =>
          /\ \A f \in new_files \ Succeeded :
                f \notin DictKeys(cache) /\ f \notin PersistedKeys
          /\ Succeeded \subseteq DictKeys(cache)
    /\ Decided =>
          \A f \in files :
              /\ hist[f] = "failed" => f \in new_files
              /\ hist[f] = "measured" => f \notin new_files

\* A file that failed before is measured again beside one that is cached.
C5_Witness ==
    /\ pc = "collect"
    /\ \E f \in new_files, g \in files :
          hist[f] = "failed" /\ hist[g] = "measured"

\* C6 as claimed: load_cache never raises; on a cache file that is corrupt,
\* or is JSON but no object, it logs an error and returns an empty cache.
C6_CorruptCacheLoadsEmpty ==
    /\ exit # "crash"
    /\ (pc = "scan" /\ cacheFile.kind \in {"garbage", "nonobject"}) =>
          /\ loaded = <<>>
          /\ LogEntry("load", CachePath) \in errlog

\* C7 as claimed: the scan returns exactly the files below the folder whose
\* extension is mp3, wav, flac or ogg in any mix of cases.
C7_ScanCaseInsensitive ==
    pc \in {"reconcile", "dispatch", "collect", "save", "report", "done"} =>
        files = {p \in diskFiles : IsPrefix(Folder.parts, p.parts) /\ IsAudio(p)}

\* C8: the report holds exactly the pairs of the final cache whose file is a
\* current file, once each, in ascending order of loudness.
C8_ReportSorted ==
    pc = "done" =>
        /\ Pairs(report) = {kv \in Pairs(cache) : kv[1] \in files}
        /\ Len(report) = Cardinality(Pairs(report))
        /\ Ascending(report)

\* The sort moved an entry: the cache holds the louder file first.
C8_Witness ==
    /\ pc = "done"
    /\ Len(cache) >= 2
    /\ cache[1][2] > cache[2][2]
    /\ report[1] = cache[2]

\* C9 as claimed: an entry of the cache file stays, with its value, over
\* every step after which its file exists.
C9_EntryStaysWhileFileExists ==
    [][EntriesStay]_vars

\* C9 amended: the same, as long as runs are started from the same working
\* directory and no write fails after truncating the cache file.
C9_EntryStaysUnlessWriteFails ==
    [][(cwd' = cwd /\ ~(pc = "save" /\ saveStatus' = "partial")) =>
          EntriesStay]_vars

\* A run rewrote the cache file and an entry it had loaded is still there.
C9_Witness ==
    /\ pc = "report"
    /\ saveStatus = "ok"
    /\ \E f \in files \cap DictKeys(loaded) :
          <<f, DictGet(loaded, f)>> \in Persisted

\* C10: loading the file save_cache wrote, in the same process, gives the
\* cache that was saved: the same keys, each with the same value.
C10_RoundTrip ==
    (pc = "report" /\ saveStatus = "ok") =>
        LET r == load_cache(cacheFile, cwd)
        IN  /\ ~r.raised
            /\ DictKeys(r.cache) = DictKeys(cache)
            /\ \A k \in DictKeys(cache) : DictGet(r.cache, k) = DictGet(cache, k)

\* A saved cache with a key above the working directory and one below it.
C10_Witness ==
    /\ pc = "report"
    /\ saveStatus = "ok"
    /\ cwd = InSub
    /\ {AudioA, AudioSubB} \subseteq DictKeys(cache)

\* C11: when the write of the cache file fails, the error is logged, the run
\* goes on and returns (it does not end in an exception) a report that holds
\* every value measured in this run; what is lost is the update: none of the
\* files measured in this run has an entry in the cache file, so that the
\* next run finds them new.
C11_WriteFailureNotFatal ==
    /\ (pc \in {"report", "done"} /\ saveStatus \in {"unchanged", "partial"}) =>
          /\ LogEntry("save", CachePath) \in errlog
          /\ exit # "crash"
          /\ \A f \in Succeeded : f \in DictKeys(cache) /\ f \notin PersistedKeys
    /\ (pc = "done" /\ saveStatus \in {"unchanged", "partial"}) =>
          /\ exit = "ok"
          /\ \A f \in Succeeded : <<f, outcome[f].val>> \in Pairs(report)

\* A run whose write failed after truncating the cache file it had loaded
\* entries from returns a report with a value measured in this run.
C11_Witness ==
    /\ pc = "done"
    /\ saveStatus = "partial"
    /\ loaded # <<>>
    /\ Succeeded # {}
    /\ Len(report) >= 2

\* C12: filtering the filtered cache again against the same files changes
\* nothing, the filtered cache has only keys of the file set, and it is the
\* cache the run goes on with after line 115.
C12_ReconcileIdempotent ==
    LET once == reconcile(loaded, files)
    IN  /\ reconcile(once, files) = once
        /\ DictKeys(once) \subseteq files
        /\ (pc = "dispatch" \/ (pc = "report" /\ new_files = {})) => cache = once

\* The filter kept two entries of the loaded cache and dropped one.
C12_Witness ==
    /\ pc = "report"
    /\ new_files = {}
    /\ Cardinality(DictKeys(loaded) \cap files) = 2
    /\ DictKeys(loaded) \ files # {}
    /\ Len(cache) = 2

\* C13: a run that finds no new file submits no task and does not call
\* save_cache: the cache file is as the run found it (absent if it was
\* absent), whatever the loaded cache held and also when the scan found
\* nothing or the folder does not exist.
C13_NoNewFileNoWrite ==
    (pc \in {"report", "done"} /\ new_files = {}) =>
        /\ tasks = NoTasks
        /\ saveStatus = "none"
        /\ cacheFile = cacheFile0

\* The folder is gone and the cache file still has an entry: nothing is
\* dispatched, nothing written.
C13_Witness ==
    /\ pc = "done"
    /\ new_files = {}
    /\ diskFiles = {}
    /\ files = {}
    /\ loaded # <<>>
    /\ cacheFile.kind = "object"

\* The step calls save_cache or changes the cache file.
WriteStep == cacheFile' # cacheFile \/ (saveStatus' # saveStatus /\ saveStatus' # "none")

AllCollected == \A t \in DOMAIN tasks : tasks[t] = "collected"

\* C14: a run with a new file calls save_cache exactly once (the one write
\* of the cache file, which may fail, see C11): the cache file changes in
\* no other step, the call comes when every future has been collected,
\* whatever its task ended with, and never while a task is outstanding.
C14_SavedOnceAfterAllTasks ==
    /\ [](saveStatus # "none" => (new_files # {} /\ AllCollected))
    /\ []((pc \in {"report", "done"} /\ new_files # {}) => saveStatus # "none")
    /\ [][WriteStep =>
            /\ pc = "save" /\ pc' = "report"
            /\ saveStatus = "none"
            /\ new_files # {} /\ DOMAIN tasks # {}
            /\ AllCollected]_vars

\* The cache file was written after two tasks, one of which had failed.
C14_Witness ==
    /\ pc = "report"
    /\ saveStatus = "ok"
    /\ cacheFile # cacheFile0
    /\ Cardinality(DOMAIN tasks) >= 2
    /\ new_files \ Succeeded # {}
    /\ Succeeded # {}

\* C15 as claimed: in every run calculate_loudness is submitted exactly once
\* for every file that has no entry in the reconciled cache, and for no
\* other file.
C15_MeasuredExactlyOnce ==
    pc \in {"collect", "save", "report", "done"} =>
        \A f \in files :
            Cardinality({t \in DOMAIN tasks : t[1] = f}) =
                (IF f \in DictKeys(reconcile(loaded, files)) THEN 0 ELSE 1)

\* C16: while the batch runs, a step in which a worker finishes leaves the
\* cache as it is, and the cache changes only in a step of the collecting
\* loop, which takes one finished future and sets the one entry of its file.
C16_SingleWriter ==
    [][pc = "collect" =>
          /\ (\E t \in DOMAIN tasks : tasks[t] = "running" /\ tasks'[t] = "done")
                => cache' = cache
          /\ cache' # cache =>
                \E t \in DOMAIN tasks :
                    /\ tasks[t] = "done"
                    /\ tasks' = [tasks EXCEPT ![t] = "collected"]
                    /\ outcome[t[1]].kind = "value"
                    /\ cache' = DictSet(cache, t[1], outcome[t[1]].val)]_vars

\* One result is in the cache while another task is still running and a
\* third has finished and is not yet collected.
C16_Witness ==
    /\ pc = "collect"
    /\ \E t, u, w \in DOMAIN tasks :
          /\ tasks[t] = "collected" /\ t[1] \in DictKeys(cache)
          /\ tasks[u] = "running"
          /\ tasks[w] = "done"

\* C17: when every call of calculate_loudness returns, a run that has loaded
\* its cache gets past the join of the batch, calls save_cache if it had a
\* new file, and returns its report: no order of the workers blocks it, and
\* a file that fails does not.
C17_RunTerminates ==
    (pc \in {"scan", "reconcile", "dispatch", "collect", "save", "report"}) ~>
        (/\ pc = "done"
         /\ exit = "ok"
         /\ AllCollected
         /\ new_files # {} => saveStatus # "none")

\* A run with two new files returned although both failed, one by raising.
C17_Witness ==
    /\ pc = "done"
    /\ exit = "ok"
    /\ Cardinality(new_files) = 2
    /\ Succeeded = {}
    /\ \E f \in new_files : outcome[f] = Raised
    /\ saveStatus # "none"

\* The mapping the batch must end with, from its inputs alone: the entries
\* of the loaded cache whose file exists, and one entry per file whose
\* measurement gives a value.
ExpectedPairs ==
    Pairs(reconcile(loaded, files)) \cup {<<f, outcome[f].val>> : f \in Succeeded}

\* C18: whatever the order in which the tasks complete, after the batch the
\* cache is the mapping the loaded cache, the files and the outcome per
\* file determine, the cache file written holds that mapping, and the
\* report holds its pairs once each in ascending order of loudness: what the
\* order of completion decides is only the order of the entries of the
\* cache, and with it the order of report lines of equal loudness.
C18_CompletionOrderIrrelevant ==
    /\ (pc \in {"save", "report", "done"} /\ new_files # {}) =>
          /\ Pairs(cache) = ExpectedPairs
          /\ Len(cache) = Cardinality(ExpectedPairs)
    /\ (pc \in {"report", "done"} /\ saveStatus = "ok") => Persisted = ExpectedPairs
    /\ (pc = "done" /\ new_files # {}) =>
          /\ Pairs(report) = ExpectedPairs
          /\ Len(report) = Cardinality(ExpectedPairs)
          /\ Ascending(report)

\* Two new files of equal loudness, the one scanned in the subfolder
\* collected first: it comes first in the cache and in the report.
C18_Witness ==
    /\ pc = "done"
    /\ {AudioA, AudioSubB} \subseteq Succeeded
    /\ outcome[AudioA] = outcome[AudioSubB]
    /\ Len(report) >= 2
    /\ \E i, j \in DOMAIN report :
          i < j /\ report[i][1] = AudioSubB /\ report[j][1] = AudioA

\* The mirror image: the same inputs, the file of the folder collected first.
C18_WitnessOtherOrder ==
    /\ pc = "done"
    /\ {AudioA, AudioSubB} \subseteq Succeeded
    /\ outcome[AudioA] = outcome[AudioSubB]
    /\ \E i, j \in DOMAIN report :
          i < j /\ report[i][1] = AudioA /\ report[j][1] = AudioSubB

\* C19: after a run that could read the cache file (it was absent or held
\* an object) and whose write, if any, succeeded, every pair of the report
\* is in the cache file, read from the run's working directory, with the
\* same value; and if the run saved, the keys of the cache file are the
\* files of the report.
C19_ReportWithinCacheFile ==
    (/\ pc = "done"
     /\ cacheFile0.kind \in {"absent", "object"}
     /\ saveStatus \in {"none", "ok"}) =>
        /\ Pairs(report) \subseteq Persisted
        /\ saveStatus = "ok" => PersistedKeys = DictKeys(report)

\* A run that kept an entry, dropped the entry of a deleted file, measured a
\* new file and saved.
C19_Witness ==
    /\ pc = "done"
    /\ cacheFile0.kind = "object"
    /\ saveStatus = "ok"
    /\ DictKeys(loaded) \ files # {}
    /\ DictKeys(loaded) \cap files # {}
    /\ Succeeded # {}

\* A run that saved nothing and reports entries of the cache file, which
\* still has the entry of a deleted file.
C19_WitnessNoSave ==
    /\ pc = "done"
    /\ cacheFile0.kind = "object"
    /\ saveStatus = "none"
    /\ report # <<>>
    /\ PersistedKeys \ DictKeys(report) # {}

====
